---- MODULE Spec2Model ----
(***************************************************************************)
(* A model of src/src/main.rs: one run of the cryptocurrency price tool.   *)
(* main() resolves its configuration (.env file, log4rs.yaml, the          *)
(* --currencies flag, CMS_API_KEY), sends one GET request, and on a 200    *)
(* response deserializes the body and writes out.csv; on any other status  *)
(* it logs the status and the body.                                        *)
(*                                                                         *)
(* The environment (files on disk, the command line, the remote server,    *)
(* I/O failures) is nondeterministic: the parts fixed before the run are   *)
(* chosen in Init, the answers of the network and the file system are      *)
(* chosen when main() asks for them.                                       *)
(***************************************************************************)
EXTENDS Integers, Sequences, FiniteSets, TLC

\* ------------------------------------------------------------------ bounds
\* the most currencies the data mapping of a response holds
MaxCurrencies == 2
\* the most values given after --currencies on the command line
MaxValues == 2

\* ------------------------------------------------------------- vocabulary
None == "<none>"

\* reqwest::StatusCode::OK
StatusOK == 200

\* the statuses the server answers with in the model
Statuses == {StatusOK, 404, 500}

\* the settlement currency the writer reads
USD == "USD"

\* the header record of out.csv
Header == <<"name", "symbol", "price", "percent_change_7d">>

\* what a previous run may have left in out.csv
OldContent == <<Header, <<"Litecoin", "LTC", "70.5", "-1.5">> >>

\* the contents out.csv may have before the run, when it exists
OldContents == {<<Header>>, OldContent}

\* the values one --currencies token may hold: a token is the sequence of the
\* symbols written in it, separated by commas ("BTC" or "BTC,ETH")
Tokens == {<<"BTC">>, <<"BTC", "ETH">>, <<"ETH">>}

\* the keys of the data mapping the server may answer with
Keys == {"BTC", "ETH", "DOGE"}

\* f64 values are modelled in tenths: 500005 is 50000.5
Quote(price, pct) == [price |-> price, percent_change_7d |-> pct]

\* the quote mappings a currency may come with: USD only, EUR only, or both
QuoteMaps(k) ==
    LET usd == CASE k = "BTC" -> Quote(500005, 32)
                 [] k = "ETH" -> Quote(10, -5)
                 [] OTHER     -> Quote(0, -1234)
        eur == Quote(usd.price + 7, usd.percent_change_7d + 1)
    IN  { [c \in {USD} |-> usd],
          [c \in {"EUR"} |-> eur],
          [c \in {USD, "EUR"} |-> IF c = USD THEN usd ELSE eur] }

CurrencyName(k) ==
    CASE k = "BTC" -> "Bitcoin" [] k = "ETH" -> "Ethereum" [] OTHER -> "Dogecoin"

\* struct Currency (id and slug are never read)
Currencies(k) ==
    { [name |-> CurrencyName(k), symbol |-> k, quote |-> q] : q \in QuoteMaps(k) }

\* struct CMCResponse: the data mappings a well-formed body deserializes into
Responses ==
    UNION { { d \in [K -> UNION { Currencies(k) : k \in K }] :
                \A k \in K : d[k] \in Currencies(k) } :
            K \in { S \in SUBSET Keys : Cardinality(S) <= MaxCurrencies } }

\* --------------------------------------------------------- pure functions
RECURSIVE JoinComma(_)
\* the text of a list of symbols separated by commas
JoinComma(syms) ==
    IF Len(syms) = 0 THEN ""
    ELSE IF Len(syms) = 1 THEN syms[1]
    ELSE syms[1] \o "," \o JoinComma(Tail(syms))

RECURSIVE Flatten(_)
\* all the symbols of a list of tokens, in order
Flatten(vals) ==
    IF Len(vals) = 0 THEN <<>> ELSE Head(vals) \o Flatten(Tail(vals))

\* f64::to_string: shortest decimal rendering, no trailing ".0"
F64ToString(t) ==
    LET a    == IF t < 0 THEN -t ELSE t
        sign == IF t < 0 THEN "-" ELSE ""
    IN  IF a % 10 = 0 THEN sign \o ToString(a \div 10)
        ELSE sign \o ToString(a \div 10) \o "." \o ToString(a % 10)

\* Row with the two numeric fields in the wrong order
Row_Swapped(currency) ==
    << currency.name,
       currency.symbol,
       F64ToString(currency.quote[USD].percent_change_7d),
       F64ToString(currency.quote[USD].price) >>

\* the record main() hands to the writer for one currency
Row(currency) ==
    << currency.name,
       currency.symbol,
       F64ToString(currency.quote[USD].price),
       F64ToString(currency.quote[USD].percent_change_7d) >>

\* the prefixes of a sequence
Prefixes(s) == { SubSeq(s, 1, n) : n \in 0..Len(s) }

\* ------------------------------------------------------------------ state
VARIABLES
    dotenvFile,   \* the .env file: "missing", "nokey", or the key it sets
    procKey,      \* CMS_API_KEY in the environment the process started with
    log4rsOk,     \* whether log4rs.yaml can be loaded
    flagPresent,  \* whether --currencies is on the command line
    argValues,    \* the values given after --currencies, a sequence of tokens
    file0Exists,  \* whether out.csv exists before the run
    file0,        \* the records in out.csv before the run
    pc,           \* the statement main() is at
    outcome,      \* "running", "ok", "err" (Err returned), "panic", "exit"
    error,        \* the error the run aborted on, or None
    envKey,       \* CMS_API_KEY in the process environment
    currencies,   \* let currencies
    api_key,      \* let api_key
    requests,     \* the HTTP requests sent: symbol parameter and key header
    status,       \* let status (0 before the response)
    bodyRead,     \* whether resp.text() returned the body
    parsedOk,     \* whether resp.json() returned Ok
    data,         \* resp.data after resp.json()
    remaining,    \* the keys of resp.data the loop has not visited yet
    iterated,     \* the keys the loop visited, in order
    wtr,          \* the csv writer: "none", "open", "dropped"
    wtrBuf,       \* records in the writer's buffer, not yet in the file
    records,      \* every record handed to wtr.write_record, in order
    fileExists,   \* whether out.csv exists
    fileContent,  \* the records in out.csv
    fileOpens,    \* how often out.csv was opened (created or truncated)
    stages,       \* the stages the run went through: "Fetch", "Parse", "Write"
    flushed,      \* whether wtr.flush() returned Ok
    finalMsg      \* whether "Queried ... and wrote CSV file" was logged

inputs == <<dotenvFile, procKey, log4rsOk, flagPresent, argValues, file0Exists, file0>>
ctl    == <<pc, outcome, error>>
conf   == <<envKey, currencies, api_key>>
net    == <<requests, status, bodyRead>>
parsed == <<parsedOk, data, remaining, iterated>>
out    == <<wtr, wtrBuf, records, fileExists, fileContent, fileOpens, flushed>>
vars   == <<inputs, ctl, conf, net, parsed, out, stages, finalMsg>>

\* the command lines: the flag absent, or present with 0..MaxValues values
ArgValues == UNION { [1..n -> Tokens] : n \in 0..MaxValues }

Init ==
    /\ dotenvFile \in {"missing", "nokey", "file-key"}
    /\ procKey \in {None, "env-key"}
    /\ log4rsOk \in BOOLEAN
    /\ flagPresent \in BOOLEAN
    /\ argValues \in ArgValues
    /\ (~flagPresent => argValues = <<>>)
    /\ file0Exists \in BOOLEAN
    /\ file0 \in (IF file0Exists THEN OldContents ELSE {<<>>})
    /\ pc = "dotenv"
    /\ outcome = "running"
    /\ error = None
    /\ envKey = procKey
    /\ currencies = None
    /\ api_key = None
    /\ requests = <<>>
    /\ status = 0
    /\ bodyRead = FALSE
    /\ parsedOk = FALSE
    /\ data = <<>>
    /\ remaining = {}
    /\ iterated = <<>>
    /\ wtr = "none"
    /\ wtrBuf = <<>>
    /\ records = <<>>
    /\ fileExists = file0Exists
    /\ fileContent = file0
    /\ fileOpens = 0
    /\ stages = <<>>
    /\ flushed = FALSE
    /\ finalMsg = FALSE

\* the run ends here with an error: `how` is "err" for an Err returned from
\* main, "panic" for a panic, "exit" for clap's process exit
Abort(kind, how) ==
    /\ pc' = "done"
    /\ outcome' = how
    /\ error' = kind

\* the next statement
Goto(next) ==
    /\ pc' = next
    /\ UNCHANGED <<outcome, error>>

\* Drop for csv::Writer: it tries to flush the buffer and ignores a failure,
\* so any prefix of the buffer may reach the file (none when the build aborts
\* on panic and nothing is dropped)
DropWriter ==
    /\ wtr' = "dropped"
    /\ \E p \in Prefixes(wtrBuf) : fileContent' = fileContent \o p
    /\ UNCHANGED <<wtrBuf, records, fileExists, fileOpens, flushed>>

\* HTTP requests sent so far
NetCalls == Len(requests)

\* ---------------------------------------------------------------- actions
\* dotenv::dotenv()?  (line 73)
Dotenv ==
    /\ pc = "dotenv"
    /\ IF dotenvFile = "missing"
       THEN /\ Abort("dotenv", "err")
            /\ UNCHANGED envKey
       ELSE /\ Goto("log_init")
            /\ envKey' = IF envKey = None /\ dotenvFile # "nokey"
                         THEN dotenvFile ELSE envKey
    /\ UNCHANGED <<inputs, currencies, api_key, net, parsed, out, stages, finalMsg>>

\* log4rs::init_file("log4rs.yaml", ..).unwrap()  (line 74)
LogInit ==
    /\ pc = "log_init"
    /\ IF log4rsOk THEN Goto("get_matches") ELSE Abort("log4rs", "panic")
    /\ UNCHANGED <<inputs, conf, net, parsed, out, stages, finalMsg>>

\* App::new(..).arg(..required(true).min_values(1)).get_matches()  (76-84):
\* clap exits the process when the flag is absent or has no value
GetMatches ==
    /\ pc = "get_matches"
    /\ IF flagPresent /\ Len(argValues) >= 1
       THEN Goto("value_of")
       ELSE Abort("args", "exit")
    /\ UNCHANGED <<inputs, conf, net, parsed, out, stages, finalMsg>>

\* matches.value_of("currencies").expect(..)  (86-88): value_of returns the
\* first value of the argument, as the text that was on the command line
ValueOf ==
    /\ pc = "value_of"
    /\ currencies' = JoinComma(argValues[1])
    /\ Goto("env_var")
    /\ UNCHANGED <<inputs, envKey, api_key, net, parsed, out, stages, finalMsg>>

\* EnvVar with the missing variable defaulted to "" instead of panicking
EnvVar_Default ==
    /\ pc = "env_var"
    /\ Goto("send")
    /\ api_key' = (IF envKey = None THEN "" ELSE envKey)
    /\ UNCHANGED <<inputs, envKey, currencies, net, parsed, out, stages, finalMsg>>

\* env::var("CMS_API_KEY").expect("CMS_API_KEY key not set")  (line 93)
EnvVar ==
    /\ pc = "env_var"
    /\ IF envKey = None
       THEN /\ Abort("env", "panic")
            /\ UNCHANGED api_key
       ELSE /\ Goto("send")
            /\ api_key' = envKey
    /\ UNCHANGED <<inputs, envKey, currencies, net, parsed, out, stages, finalMsg>>

\* Send with one retry after a transport failure
Send_Retry ==
    /\ pc = "send"
    /\ requests' = Append(requests, [symbol |-> currencies, key |-> api_key])
    /\ stages' = Append(stages, "Fetch")
    /\ \/ /\ Len(requests) >= 1
          /\ Abort("transport", "err")
          /\ UNCHANGED status
       \/ /\ Len(requests) = 0
          /\ UNCHANGED <<ctl, status>>
       \/ /\ \E s \in Statuses : status' = s
          /\ Goto("match_status")
    /\ UNCHANGED <<inputs, conf, bodyRead, parsed, out, finalMsg>>

\* client.get(URL).header("X-CMC_PRO_API_KEY", api_key)
\*       .query(&[("symbol", currencies.to_string())]).send().await?  (94-99)
Send ==
    /\ pc = "send"
    /\ requests' = Append(requests, [symbol |-> currencies, key |-> api_key])
    /\ stages' = Append(stages, "Fetch")
    /\ \/ /\ Abort("transport", "err")
          /\ UNCHANGED status
       \/ /\ \E s \in Statuses : status' = s
          /\ Goto("match_status")
    /\ UNCHANGED <<inputs, conf, bodyRead, parsed, out, finalMsg>>

\* MatchStatus with the body parsed whatever the status
MatchStatus_AnyStatus ==
    /\ pc = "match_status"
    /\ Goto("json")
    /\ UNCHANGED <<inputs, conf, net, parsed, out, stages, finalMsg>>

\* match status { StatusCode::OK => .., _ => .. }  (101-103, 117)
MatchStatus ==
    /\ pc = "match_status"
    /\ IF status = StatusOK THEN Goto("json") ELSE Goto("text")
    /\ UNCHANGED <<inputs, conf, net, parsed, out, stages, finalMsg>>

\* Json with the writer opened (out.csv truncated) before the body is parsed
Json_OpenFirst ==
    /\ pc = "json"
    /\ stages' = Append(stages, "Parse")
    /\ fileExists' = TRUE
    /\ fileContent' = <<>>
    /\ fileOpens' = fileOpens + 1
    /\ \/ /\ Abort("schema", "err")
          /\ UNCHANGED parsed
       \/ /\ \E d \in Responses :
                /\ parsedOk' = TRUE
                /\ data' = d
                /\ remaining' = DOMAIN d
          /\ UNCHANGED iterated
          /\ Goto("from_path")
    /\ UNCHANGED <<inputs, conf, net, wtr, wtrBuf, records, flushed, finalMsg>>

\* let resp: CMCResponse = resp.json().await?  (line 104): the body fails to
\* arrive or to deserialize, or it deserializes into a data mapping
Json ==
    /\ pc = "json"
    /\ stages' = Append(stages, "Parse")
    /\ \/ /\ Abort("schema", "err")
          /\ UNCHANGED parsed
       \/ /\ \E d \in Responses :
                /\ parsedOk' = TRUE
                /\ data' = d
                /\ remaining' = DOMAIN d
          /\ UNCHANGED iterated
          /\ Goto("from_path")
    /\ UNCHANGED <<inputs, conf, net, out, finalMsg>>

\* let mut wtr = Writer::from_path("out.csv")?  (line 105): File::create
\* creates the file or truncates it
FromPath ==
    /\ pc = "from_path"
    /\ \/ /\ Abort("io_open", "err")
          /\ UNCHANGED <<out, stages>>
       \/ /\ fileExists' = TRUE
          /\ fileContent' = <<>>
          /\ fileOpens' = fileOpens + 1
          /\ wtr' = "open"
          /\ stages' = Append(stages, "Write")
          /\ UNCHANGED <<wtrBuf, records, flushed>>
          /\ Goto("header")
    /\ UNCHANGED <<inputs, conf, net, parsed, finalMsg>>

\* wtr.write_record(rec)?: the record goes to the writer's buffer; a full
\* buffer is written to the file first, which may fail
WriteRecord(rec, next) ==
    /\ records' = Append(records, rec)
    /\ \/ /\ wtrBuf' = Append(wtrBuf, rec)
          /\ UNCHANGED <<wtr, fileContent>>
          /\ Goto(next)
       \/ /\ wtrBuf # <<>>
          /\ fileContent' = fileContent \o wtrBuf
          /\ wtrBuf' = <<rec>>
          /\ UNCHANGED wtr
          /\ Goto(next)
       \/ /\ wtrBuf # <<>>
          /\ Abort("io_write", "err")
          /\ wtr' = "dropped"
          /\ \E p \in Prefixes(wtrBuf) : fileContent' = fileContent \o p
          /\ UNCHANGED wtrBuf
    /\ UNCHANGED <<fileExists, fileOpens, flushed>>

\* WriteHeader with the header record left out
WriteHeader_Skipped ==
    /\ pc = "header"
    /\ Goto("rows")
    /\ UNCHANGED <<inputs, conf, net, parsed, out, stages, finalMsg>>

\* wtr.write_record(&["name", "symbol", "price", "percent_change_7d"])?  (106)
WriteHeader ==
    /\ pc = "header"
    /\ WriteRecord(Header, "rows")
    /\ UNCHANGED <<inputs, conf, net, parsed, stages, finalMsg>>

\* WriteRow with a currency that has no "USD" quote skipped (quote.get("USD"))
WriteRow_SkipMissing ==
    /\ pc = "rows"
    /\ \E k \in remaining :
          /\ remaining' = remaining \ {k}
          /\ iterated' = Append(iterated, k)
          /\ IF USD \in DOMAIN data[k].quote
             THEN WriteRecord(Row(data[k]), "rows")
             ELSE /\ Goto("rows")
                  /\ UNCHANGED out
    /\ UNCHANGED <<inputs, conf, net, parsedOk, data, stages, finalMsg>>

\* one iteration of  for currency in resp.data.values() { .. }  (107-114):
\* a HashMap yields its values in any order; currency.quote["USD"] panics
\* when the key is missing
WriteRow ==
    /\ pc = "rows"
    /\ \E k \in remaining :
          /\ remaining' = remaining \ {k}
          /\ iterated' = Append(iterated, k)
          /\ IF USD \in DOMAIN data[k].quote
             THEN WriteRecord(Row(data[k]), "rows")
             ELSE /\ Abort("missing_usd", "panic")
                  /\ DropWriter
    /\ UNCHANGED <<inputs, conf, net, parsedOk, data, stages, finalMsg>>

\* Flush with the result of wtr.flush() ignored
Flush_Ignored ==
    /\ pc = "rows"
    /\ remaining = {}
    /\ \/ /\ fileContent' = fileContent \o wtrBuf
          /\ wtrBuf' = <<>>
          /\ flushed' = TRUE
       \/ /\ \E p \in Prefixes(wtrBuf) : fileContent' = fileContent \o p
          /\ UNCHANGED <<wtrBuf, flushed>>
    /\ wtr' = "dropped"
    /\ Goto("final_info")
    /\ UNCHANGED <<inputs, conf, net, parsed, records, fileExists, fileOpens,
                   stages, finalMsg>>

\* wtr.flush()?  (line 115), reached when the loop is over
Flush ==
    /\ pc = "rows"
    /\ remaining = {}
    /\ \/ /\ fileContent' = fileContent \o wtrBuf
          /\ wtrBuf' = <<>>
          /\ flushed' = TRUE
          /\ wtr' = "dropped"
          /\ Goto("final_info")
       \/ /\ Abort("io_flush", "err")
          /\ wtr' = "dropped"
          /\ \E p \in Prefixes(wtrBuf) : fileContent' = fileContent \o p
          /\ UNCHANGED <<wtrBuf, flushed>>
    /\ UNCHANGED <<inputs, conf, net, parsed, records, fileExists, fileOpens,
                   stages, finalMsg>>

\* Text with the non-200 arm returning Ok(()) itself, before the final message
Text_ReturnEarly ==
    /\ pc = "text"
    /\ \/ /\ bodyRead' = TRUE
          /\ pc' = "done"
          /\ outcome' = "ok"
          /\ UNCHANGED error
       \/ /\ Abort("body", "err")
          /\ UNCHANGED bodyRead
    /\ UNCHANGED <<inputs, conf, requests, status, parsed, out, stages, finalMsg>>

\* info!("Status: {}\nResponse Body: {}", status, resp.text().await?)  (118)
Text ==
    /\ pc = "text"
    /\ \/ /\ bodyRead' = TRUE
          /\ Goto("final_info")
       \/ /\ Abort("body", "err")
          /\ UNCHANGED bodyRead
    /\ UNCHANGED <<inputs, conf, requests, status, parsed, out, stages, finalMsg>>

\* info!("Queried {} and wrote CSV file", currencies); Ok(())  (122-124)
FinalInfo ==
    /\ pc = "final_info"
    /\ finalMsg' = TRUE
    /\ pc' = "done"
    /\ outcome' = "ok"
    /\ UNCHANGED <<inputs, error, conf, net, parsed, out, stages>>

Next ==
    \/ Dotenv
    \/ LogInit
    \/ GetMatches
    \/ ValueOf
    \/ EnvVar
    \/ Send
    \/ MatchStatus
    \/ Json
    \/ FromPath
    \/ WriteHeader
    \/ WriteRow
    \/ Flush
    \/ Text
    \/ FinalInfo

Spec == Init /\ [][Next]_vars

\* ----------------------------------------------------------------- claims
\* the run ended with a failure: an Err from main, a panic, or clap's exit
Failed == outcome \in {"err", "panic", "exit"}

\* CMS_API_KEY is set neither in the environment nor by the .env file
KeyUnset == procKey = None /\ dotenvFile # "file-key"

\* out.csv is as it was before the run and no writer was ever made for it
FileUntouched ==
    /\ fileOpens = 0
    /\ wtr = "none"
    /\ records = <<>>
    /\ fileExists = file0Exists
    /\ fileContent = file0

InStages(st) == \E i \in 1..Len(stages) : stages[i] = st

\* some currency of the parsed data mapping has no "USD" quote
MissingUSD == \E k \in DOMAIN data : USD \notin DOMAIN data[k].quote

IoErrors == {"io_open", "io_write", "io_flush"}

\* C1: when the --currencies flag is absent or CMS_API_KEY is unset, no HTTP
\* request is ever sent, and the run ends with a failure, on a configuration
\* error.
C1_ConfigErrorBeforeNetwork ==
    (~flagPresent \/ KeyUnset) =>
        /\ NetCalls = 0
        /\ ~InStages("Fetch")
        /\ outcome # "ok"
        /\ (pc = "done" =>
              /\ Failed
              /\ error \in {"dotenv", "log4rs", "args", "env"})

\* a run that got as far as reading CMS_API_KEY, found it unset and panicked
C1_Witness ==
    /\ pc = "done"
    /\ flagPresent
    /\ KeyUnset
    /\ error = "env"
    /\ outcome = "panic"
    /\ NetCalls = 0

\* C2: after a response with a status other than 200 the body is never
\* parsed as JSON, out.csv is neither created nor modified, and the run does
\* not panic: it ends Ok when the body could be read and with the body's
\* read error otherwise.
C2_Non200LeavesFile ==
    (status # 0 /\ status # StatusOK) =>
        /\ ~InStages("Parse")
        /\ ~parsedOk
        /\ FileUntouched
        /\ outcome \notin {"panic", "exit"}
        /\ (pc = "done" =>
              IF bodyRead THEN outcome = "ok" /\ error = None
              ELSE outcome = "err" /\ error = "body")

\* a finished 404 run that left an existing out.csv alone
C2_Witness ==
    /\ pc = "done"
    /\ status = 404
    /\ outcome = "ok"
    /\ file0Exists
    /\ fileContent = OldContent

\* C3: a finished run with a well-formed 200 response of N currencies, each
\* with a "USD" quote, and no I/O error, succeeds, and out.csv then holds
\* N+1 records: the header first, then one row per currency with the fields
\* name, symbol, USD price, USD percent_change_7d; the writer was flushed.
C3_CsvContent ==
    (/\ pc = "done"
     /\ status = StatusOK
     /\ parsedOk
     /\ ~MissingUSD
     /\ error \notin IoErrors) =>
        LET N == Cardinality(DOMAIN data) IN
        /\ outcome = "ok"
        /\ flushed
        /\ wtrBuf = <<>>
        /\ fileExists
        /\ Len(fileContent) = N + 1
        /\ fileContent[1] = Header
        /\ \A k \in DOMAIN data :
              Cardinality({ i \in 2..(N + 1) :
                  fileContent[i] =
                      << data[k].name,
                         data[k].symbol,
                         F64ToString(data[k].quote[USD].price),
                         F64ToString(data[k].quote[USD].percent_change_7d) >> }) = 1

\* a successful run of two currencies, one of them the spec's Bitcoin example
C3_Witness ==
    /\ pc = "done"
    /\ outcome = "ok"
    /\ status = StatusOK
    /\ Cardinality(DOMAIN data) = 2
    /\ Len(fileContent) = 3
    /\ fileContent[1] = Header
    /\ \E i \in 2..3 : fileContent[i] = <<"Bitcoin", "BTC", "50000.5", "3.2">>

\* C4: a run that ends in a transport error or a schema error returned an
\* error and never opened, created, truncated or wrote out.csv; out.csv is
\* opened only after a 200 response has been parsed successfully.
C4_NoFileBeforeParse ==
    /\ (error \in {"transport", "schema"} =>
          /\ pc = "done"
          /\ outcome = "err"
          /\ FileUntouched)
    /\ ((fileOpens > 0 \/ wtr # "none" \/ records # <<>>) =>
          /\ status = StatusOK
          /\ parsedOk)
    /\ (~parsedOk => FileUntouched)

\* a run aborted by a schema error with the old out.csv still in place
C4_Witness ==
    /\ pc = "done"
    /\ error = "schema"
    /\ outcome = "err"
    /\ file0Exists
    /\ fileContent = OldContent

\* C5: once a 200 response is parsed whose data mapping has a currency with
\* no "USD" quote, the run never succeeds: it ends with a failure (the lookup
\* panic, or an I/O error met before it); and every successful run of a 200
\* response wrote a row with the USD values of each currency of the mapping.
C5_MissingUsdFails ==
    /\ ((parsedOk /\ MissingUSD) =>
          /\ outcome # "ok"
          /\ ~finalMsg
          /\ ~flushed
          /\ (pc = "done" =>
                /\ Failed
                /\ error \in {"missing_usd"} \cup IoErrors))
    /\ ((outcome = "ok" /\ status = StatusOK) =>
          /\ ~MissingUSD
          /\ Len(records) = Cardinality(DOMAIN data) + 1
          /\ \A k \in DOMAIN data :
                \E i \in 2..Len(records) :
                    /\ records[i][2] = data[k].symbol
                    /\ records[i][3] = F64ToString(data[k].quote[USD].price))

\* a run that panicked on a currency without "USD" while another had one
C5_Witness ==
    /\ pc = "done"
    /\ error = "missing_usd"
    /\ outcome = "panic"
    /\ Cardinality(DOMAIN data) = 2
    /\ \E k \in DOMAIN data : USD \in DOMAIN data[k].quote

\* C6: the request carries a symbol parameter equal to the comma-joined list
\* of all the symbols supplied to --currencies, and the X-CMC_PRO_API_KEY
\* header equal to the value of CMS_API_KEY.
C6_AllSymbolsSent ==
    \A i \in 1..Len(requests) :
        /\ requests[i].symbol = JoinComma(Flatten(argValues))
        /\ requests[i].key = envKey
        /\ envKey # None

\* C7: an error ends the run at once with a failure outcome; a finished run
\* succeeded exactly when it flushed the CSV after a 200 response or read the
\* body of a non-200 response; nothing is retried.
C7_Outcomes ==
    /\ (error # None <=> Failed)
    /\ (Failed => pc = "done")
    /\ (error \in {"dotenv", "transport", "schema", "body"} \cup IoErrors
          => outcome = "err")
    /\ (error \in {"log4rs", "env", "missing_usd"} => outcome = "panic")
    /\ (error = "args" => outcome = "exit")
    /\ (pc = "done" =>
          /\ outcome # "running"
          /\ (outcome = "ok" <=>
                \/ status = StatusOK /\ flushed
                \/ status # 0 /\ status # StatusOK /\ bodyRead))
    /\ NetCalls <= 1
    /\ fileOpens <= 1

\* a successful run of a 500 response whose body was read
C7_Witness ==
    /\ pc = "done"
    /\ outcome = "ok"
    /\ status = 500
    /\ bodyRead
    /\ error = None

\* C8: the stages of a run are a prefix of Fetch, Parse, Write, none
\* repeated: at most one request is sent, the body is parsed only when the
\* status is 200, out.csv is opened and written only after the body is
\* parsed, and only the status decides between the two arms.
C8_LinearStages ==
    /\ stages \in Prefixes(<<"Fetch", "Parse", "Write">>)
    /\ NetCalls <= 1
    /\ NetCalls = (IF InStages("Fetch") THEN 1 ELSE 0)
    /\ (InStages("Parse") => status = StatusOK)
    /\ (InStages("Write") => parsedOk)
    /\ fileOpens = (IF InStages("Write") THEN 1 ELSE 0)
    /\ (records # <<>> => InStages("Write"))
    /\ (pc = "text" => status # 0 /\ status # StatusOK /\ stages = <<"Fetch">>)
    /\ (pc \in {"json", "from_path", "header", "rows"} => status = StatusOK)

\* a finished run that went through all three stages
C8_Witness ==
    /\ pc = "done"
    /\ stages = <<"Fetch", "Parse", "Write">>
    /\ outcome = "ok"
    /\ Len(records) = 3

\* C9: a run that fails on a missing "USD" quote fails only after out.csv
\* was opened (created or truncated, so its old records are gone), the header
\* was handed to the writer, and so was the row of every currency iterated
\* before the offending one; out.csv then holds a prefix of these records
\* and nothing of what it held before the run.
C9_MissingUsdAfterOpen ==
    error = "missing_usd" =>
        LET n == Len(iterated) IN
        /\ fileOpens = 1
        /\ fileExists
        /\ wtr = "dropped"
        /\ ~FileUntouched
        /\ n >= 1
        /\ USD \notin DOMAIN data[iterated[n]].quote
        /\ Len(records) = n
        /\ records[1] = Header
        /\ \A i \in 1..(n - 1) :
              /\ USD \in DOMAIN data[iterated[i]].quote
              /\ records[i + 1] =
                    << data[iterated[i]].name,
                       data[iterated[i]].symbol,
                       F64ToString(data[iterated[i]].quote[USD].price),
                       F64ToString(data[iterated[i]].quote[USD].percent_change_7d) >>
        /\ fileContent \in Prefixes(records)

\* a missing-USD failure after one row, over an out.csv that existed before
C9_Witness ==
    /\ error = "missing_usd"
    /\ file0Exists
    /\ file0 = OldContent
    /\ Len(iterated) = 2
    /\ fileContent = <<Header, records[2]>>

\* C10: the final message is logged on every run that ends successfully,
\* also after a non-200 response with out.csv never opened, and on no run
\* that ends with an error.
C10_FinalMessage ==
    /\ (finalMsg => outcome = "ok" /\ error = None)
    /\ (outcome = "ok" => finalMsg)
    /\ (Failed => ~finalMsg)

\* the message logged after a 404 response, with no out.csv at all
C10_Witness ==
    /\ pc = "done"
    /\ finalMsg
    /\ status = 404
    /\ fileOpens = 0
    /\ ~fileExists

====
